---- MODULE Spec2Model ----
(***************************************************************************)
(* Model of the offline initial-UTxO validator of juno                     *)
(* (src/hydra/initial_utxo.rs): serde deserialization of the JSON document *)
(* into the typed snapshot, the validation loop of validate_json over the  *)
(* HashMap of entries, and serde serialization back to JSON; and of the     *)
(* settings editor (src/views/configure.rs): the HydraSettings that        *)
(* iced::run starts from and HydraSettings::update, one action a Message.  *)
(*                                                                         *)
(* Strings whose characters the code inspects (keys, addresses, policy     *)
(* IDs, asset names, hex payloads, language tags) are sequences of         *)
(* one-character strings.  A JSON value is a tagged tuple, a JSON object   *)
(* a function from member names to JSON values; an absent member is a      *)
(* name outside the function's domain.                                     *)
(***************************************************************************)
EXTENDS Integers, Sequences, FiniteSets, TLC

VARIABLES
    doc,      \* the JSON document handed to validate_json (top-level object)
    pc,       \* position inside validate_json: "start", "loop", "done"
    snapshot, \* the parsed UTxO map (key -> TxOut)
    iter,     \* iteration orders of the HashMaps built by this call
    idx,      \* position of the for loop in iter.entries
    result,   \* the value validate_json returned, <<>> while running
    call,     \* 1 for the first call, 2 for the second
    mode,     \* "first", "again" (same document), "roundtrip" (re-serialized)
    first,    \* the result of the first call, <<>> until it is over
    settings, \* the HydraSettings of the settings editor
    panicked, \* HydraSettings::update panicked
    sent      \* number of Messages update has been called with

valVars == <<doc, pc, snapshot, iter, idx, result, call, mode, first>>
appVars == <<settings, panicked, sent>>
vars == <<doc, pc, snapshot, iter, idx, result, call, mode, first,
          settings, panicked, sent>>

(* ------------------------------ bounds --------------------------------- *)

\* largest number of entries of a generated document
MaxEntries == 2

\* largest number of Messages the settings editor is sent
MaxMessages == 3

(* --------------------------- program constants ------------------------- *)

HashLen == 64
PolicyIdLen == 56
MaxAssetNameLen == 64
U16Max == 65535

(* ------------------------------ strings -------------------------------- *)

Rep(c, n) == [i \in 1..n |-> c]

Digits == {"0", "1", "2", "3", "4", "5", "6", "7", "8", "9"}
LowerHexLetters == {"a", "b", "c", "d", "e", "f"}
UpperHexLetters == {"A", "B", "C", "D", "E", "F"}

\* char::is_ascii_hexdigit
IsAsciiHexdigit(c) == c \in Digits \cup LowerHexLetters \cup UpperHexLetters

\* ValidateHexString accepting lower-case hex digits only
M_ValidateHexString_LowerOnly(s) ==
    \A i \in 1..Len(s) : s[i] \in Digits \cup LowerHexLetters

\* validate_hex_string: every character is an ASCII hex digit
ValidateHexString(s) == \A i \in 1..Len(s) : IsAsciiHexdigit(s[i])

\* KeyRegexIsMatch with the hash matched as [0-9a-fA-F]{64}
M_KeyRegex_AnyCase(s) ==
    /\ Len(s) >= HashLen + 2
    /\ \A i \in 1..HashLen : IsAsciiHexdigit(s[i])
    /\ s[HashLen + 1] = "#"
    /\ \A i \in (HashLen + 2)..Len(s) : s[i] \in Digits

\* Regex ^[0-9a-f]{64}#[0-9]+$
KeyRegexIsMatch(s) ==
    /\ Len(s) >= HashLen + 2
    /\ \A i \in 1..HashLen : s[i] \in Digits \cup LowerHexLetters
    /\ s[HashLen + 1] = "#"
    /\ \A i \in (HashLen + 2)..Len(s) : s[i] \in Digits

(* ------------------------------ JSON ----------------------------------- *)

JNull == <<"null">>
JStr(s) == <<"str", s>>
JNum(n) == <<"num", n>>
JObj(f) == <<"obj", f>>

IsNull(j) == j[1] = "null"
IsStr(j) == j[1] = "str"
IsNum(j) == j[1] = "num"
IsObj(j) == j[1] = "obj"

EmptyMap == [x \in {} |-> x]

Has(obj, name) == name \in DOMAIN obj

Without(f, name) == [x \in DOMAIN f \ {name} |-> f[x]]

\* member `name` of object f set to v
With(f, name, v) == (name :> v) @@ f

(* --------------------- typed model (lines 5-54) ------------------------ *)

\* Option<T>: None is the empty tuple, Some(x) the one-element tuple.
None == <<>>
Some(x) == <<x>>
IsSome(o) == Len(o) = 1

\* the name of the `lovelace` member of a value object
Lovelace == <<"l", "o", "v", "e", "l", "a", "c", "e">>

ScriptTypes == {"SimpleScript", "PlutusScriptV1", "PlutusScriptV2", "PlutusScriptV3"}

\* ScriptTypeToJson without the rename: the variant's own name
M_ScriptTypeToJson_NoRename(v) == v

\* Serialize for ScriptType under rename_all = "camelCase"
ScriptTypeToJson(v) ==
    CASE v = "SimpleScript" -> "simpleScript"
      [] v = "PlutusScriptV1" -> "plutusScriptV1"
      [] v = "PlutusScriptV2" -> "plutusScriptV2"
      [] v = "PlutusScriptV3" -> "plutusScriptV3"

\* Deserialize for ScriptType under rename_all = "camelCase"; "" when the
\* string names no variant
ScriptTypeFromJson(s) ==
    CASE s = "simpleScript" -> "SimpleScript"
      [] s = "plutusScriptV1" -> "PlutusScriptV1"
      [] s = "plutusScriptV2" -> "PlutusScriptV2"
      [] s = "plutusScriptV3" -> "PlutusScriptV3"
      [] OTHER -> ""

(* ------------------------- Deserialize (serde) ------------------------- *)

\* ScriptDetails: cbor_hex, description and type are required members
ScriptDetailsParses(j) ==
    /\ IsObj(j)
    /\ Has(j[2], "cbor_hex") /\ IsStr(j[2]["cbor_hex"])
    /\ Has(j[2], "description") /\ IsStr(j[2]["description"])
    /\ Has(j[2], "type") /\ IsStr(j[2]["type"])
    /\ ScriptTypeFromJson(j[2]["type"][2]) \in ScriptTypes

DeScriptDetails(j) ==
    [cbor_hex |-> j[2]["cbor_hex"][2],
     description |-> j[2]["description"][2],
     script_type |-> ScriptTypeFromJson(j[2]["type"][2])]

\* Script: script_language and script are required members
ScriptParses(j) ==
    /\ IsObj(j)
    /\ Has(j[2], "script_language") /\ IsStr(j[2]["script_language"])
    /\ Has(j[2], "script") /\ ScriptDetailsParses(j[2]["script"])

DeScript(j) ==
    [script_language |-> j[2]["script_language"][2],
     script |-> DeScriptDetails(j[2]["script"])]

\* Value: lovelace is a u64 defaulting to 0, every other member is flattened
\* into assets and must be an object of i64 quantities
ValueParses(j) ==
    /\ IsObj(j)
    /\ Has(j[2], Lovelace) => (IsNum(j[2][Lovelace]) /\ j[2][Lovelace][2] >= 0)
    /\ \A p \in DOMAIN j[2] \ {Lovelace} :
          /\ IsObj(j[2][p])
          /\ \A a \in DOMAIN j[2][p][2] : IsNum(j[2][p][2][a])

DeValue(j) ==
    [lovelace |-> IF Has(j[2], Lovelace) THEN j[2][Lovelace][2] ELSE 0,
     assets |-> [p \in DOMAIN j[2] \ {Lovelace} |->
                    [a \in DOMAIN j[2][p][2] |-> j[2][p][2][a][2]]]]

\* Option<Option<String>>: an absent member and null both give None, a
\* string s gives Some(Some(s)), anything else is a type error
OptStrParses(obj, name) ==
    Has(obj, name) => (IsNull(obj[name]) \/ IsStr(obj[name]))

DeOptStr(obj, name) ==
    IF Has(obj, name) /\ ~IsNull(obj[name]) THEN Some(Some(obj[name][2])) ELSE None

\* Option<Option<Script>>
OptScriptParses(obj, name) ==
    Has(obj, name) => (IsNull(obj[name]) \/ ScriptParses(obj[name]))

DeOptScript(obj, name) ==
    IF Has(obj, name) /\ ~IsNull(obj[name]) THEN Some(Some(DeScript(obj[name]))) ELSE None

\* Option<Option<serde_json::Value>>: any JSON but null gives Some(Some(j))
DeOptJson(obj, name) ==
    IF Has(obj, name) /\ ~IsNull(obj[name]) THEN Some(Some(obj[name])) ELSE None

\* TxOut: address and value are required; members the struct does not name
\* are ignored
TxOutParses(j) ==
    /\ IsObj(j)
    /\ Has(j[2], "address") /\ IsStr(j[2]["address"])
    /\ Has(j[2], "value") /\ ValueParses(j[2]["value"])
    /\ OptScriptParses(j[2], "reference_script")
    /\ OptStrParses(j[2], "datumhash")
    /\ OptStrParses(j[2], "inline_datumhash")
    /\ OptStrParses(j[2], "inline_datum_raw")
    /\ OptStrParses(j[2], "datum")

DeTxOut(j) ==
    [address |-> j[2]["address"][2],
     value |-> DeValue(j[2]["value"]),
     reference_script |-> DeOptScript(j[2], "reference_script"),
     datumhash |-> DeOptStr(j[2], "datumhash"),
     inline_datum |-> DeOptJson(j[2], "inline_datum"),
     inline_datumhash |-> DeOptStr(j[2], "inline_datumhash"),
     inline_datum_raw |-> DeOptStr(j[2], "inline_datum_raw"),
     datum |-> DeOptStr(j[2], "datum")]

\* serde_json::from_str::<UTxO>: d is the top-level object
UTxOParses(d) == \A k \in DOMAIN d : TxOutParses(d[k])

DeUTxO(d) == [k \in DOMAIN d |-> DeTxOut(d[k])]

(* -------------------------- Serialize (serde) -------------------------- *)

SerScript(s) ==
    JObj([script_language |-> JStr(s.script_language),
          script |-> JObj([cbor_hex |-> JStr(s.script.cbor_hex),
                           description |-> JStr(s.script.description),
                           type |-> JStr(ScriptTypeToJson(s.script.script_type))])])

\* lovelace is emitted first, then the assets map flattened beside it
SerValue(v) ==
    JObj((Lovelace :> JNum(v.lovelace)) @@
         [p \in DOMAIN v.assets |->
             JObj([a \in DOMAIN v.assets[p] |-> JNum(v.assets[p][a])])])

\* a member under skip_serializing_if = "Option::is_none": left out when the
\* outer Option is None, null for Some(None), the value for Some(Some(x))
SerOptStr(obj, name, o) ==
    IF ~IsSome(o) THEN obj
    ELSE With(obj, name, IF ~IsSome(o[1]) THEN JNull ELSE JStr(o[1][1]))

SerOptScript(obj, name, o) ==
    IF ~IsSome(o) THEN obj
    ELSE With(obj, name, IF ~IsSome(o[1]) THEN JNull ELSE SerScript(o[1][1]))

SerOptJson(obj, name, o) ==
    IF ~IsSome(o) THEN obj
    ELSE With(obj, name, IF ~IsSome(o[1]) THEN JNull ELSE o[1][1])

SerTxOut(t) ==
    LET m0 == [address |-> JStr(t.address), value |-> SerValue(t.value)]
        m1 == SerOptScript(m0, "reference_script", t.reference_script)
        m2 == SerOptStr(m1, "datumhash", t.datumhash)
        m3 == SerOptJson(m2, "inline_datum", t.inline_datum)
        m4 == SerOptStr(m3, "inline_datumhash", t.inline_datumhash)
        m5 == SerOptStr(m4, "inline_datum_raw", t.inline_datum_raw)
    IN  JObj(SerOptStr(m5, "datum", t.datum))

\* serde_json::to_string of the UTxO map
SerUTxO(u) == [k \in DOMAIN u |-> SerTxOut(u[k])]

(* --------------------------- error messages ---------------------------- *)

\* A message is a sequence of tokens: the words of the format string, and
\* the strings interpolated into it.
Lit(w) == <<"lit", w>>
Val(s) == <<"val", s>>
Words(ws) == [i \in 1..Len(ws) |-> Lit(ws[i])]

Ok == <<"Ok">>
Err(msg) == <<"Err", msg>>
IsErr(r) == r[1] = "Err"

\* the boxed serde_json::Error of a document that does not deserialize
ParseError == Err(Words(<<"serde_json::Error">>))

(* ----------------------------- validators ------------------------------ *)

\* ValidateScript with the two checks in the other order
M_ValidateScript_LangFirst(script) ==
    IF Len(script.script_language) = 0
    THEN Err(Words(<<"Script", "language", "cannot", "be", "empty">>))
    ELSE IF ~ValidateHexString(script.script.cbor_hex)
    THEN Err(Words(<<"Invalid", "hex", "in", "script">>))
    ELSE Ok

\* validate_script: the CBOR hex first, then the language tag
ValidateScript(script) ==
    IF ~ValidateHexString(script.script.cbor_hex)
    THEN Err(Words(<<"Invalid", "hex", "in", "script">>))
    ELSE IF Len(script.script_language) = 0
    THEN Err(Words(<<"Script", "language", "cannot", "be", "empty">>))
    ELSE Ok

\* ValidateAssetNames with the length test `>= 64`
RECURSIVE M_AssetNames_OffByOne(_, _)
M_AssetNames_OffByOne(aorder, j) ==
    IF j > Len(aorder) THEN Ok
    ELSE IF Len(aorder[j]) >= MaxAssetNameLen \/ ~ValidateHexString(aorder[j])
    THEN Err(Words(<<"Invalid", "asset", "name:">>) \o <<Val(aorder[j])>>)
    ELSE M_AssetNames_OffByOne(aorder, j + 1)

\* ValidateAssetNames with the length test `> 65`
RECURSIVE M_AssetNames_Bound65(_, _)
M_AssetNames_Bound65(aorder, j) ==
    IF j > Len(aorder) THEN Ok
    ELSE IF Len(aorder[j]) > MaxAssetNameLen + 1 \/ ~ValidateHexString(aorder[j])
    THEN Err(Words(<<"Invalid", "asset", "name:">>) \o <<Val(aorder[j])>>)
    ELSE M_AssetNames_Bound65(aorder, j + 1)

\* ValidateAssetNames with a message that leaves the asset name out
RECURSIVE M_AssetNames_NoName(_, _)
M_AssetNames_NoName(aorder, j) ==
    IF j > Len(aorder) THEN Ok
    ELSE IF Len(aorder[j]) > MaxAssetNameLen \/ ~ValidateHexString(aorder[j])
    THEN Err(Words(<<"Invalid", "asset", "name">>))
    ELSE M_AssetNames_NoName(aorder, j + 1)

\* the inner for loop of validate_value over the asset names, in the order
\* aorder, from position j
RECURSIVE ValidateAssetNames(_, _)
ValidateAssetNames(aorder, j) ==
    IF j > Len(aorder) THEN Ok
    ELSE IF Len(aorder[j]) > MaxAssetNameLen \/ ~ValidateHexString(aorder[j])
    THEN Err(Words(<<"Invalid", "asset", "name:">>) \o <<Val(aorder[j])>>)
    ELSE ValidateAssetNames(aorder, j + 1)

\* ValidatePolicy with the policy ID checked for its length only
M_ValidatePolicy_LengthOnly(policy_id, assets, aorder) ==
    IF Len(policy_id) # PolicyIdLen
    THEN Err(Words(<<"Invalid", "Policy", "ID:">>) \o <<Val(policy_id)>>)
    ELSE IF DOMAIN assets = {}
    THEN Err(Words(<<"Asset", "map", "for", "policy">>) \o <<Val(policy_id)>>
             \o Words(<<"cannot", "be", "empty">>))
    ELSE ValidateAssetNames(aorder, 1)

\* ValidatePolicy without the test of the empty asset map
M_ValidatePolicy_NoEmptyCheck(policy_id, assets, aorder) ==
    IF Len(policy_id) # PolicyIdLen \/ ~ValidateHexString(policy_id)
    THEN Err(Words(<<"Invalid", "Policy", "ID:">>) \o <<Val(policy_id)>>)
    ELSE ValidateAssetNames(aorder, 1)

\* the body of the outer for loop of validate_value for one policy
ValidatePolicy(policy_id, assets, aorder) ==
    IF Len(policy_id) # PolicyIdLen \/ ~ValidateHexString(policy_id)
    THEN Err(Words(<<"Invalid", "Policy", "ID:">>) \o <<Val(policy_id)>>)
    ELSE IF DOMAIN assets = {}
    THEN Err(Words(<<"Asset", "map", "for", "policy">>) \o <<Val(policy_id)>>
             \o Words(<<"cannot", "be", "empty">>))
    ELSE ValidateAssetNames(aorder, 1)

\* validate_value: the policies in the order porder, from position i;
\* aorders[p] is the iteration order of the asset map of policy p
RECURSIVE ValidatePolicies(_, _, _, _)
ValidatePolicies(value, porder, aorders, i) ==
    IF i > Len(porder) THEN Ok
    ELSE LET r == ValidatePolicy(porder[i], value.assets[porder[i]], aorders[porder[i]])
         IN  IF IsErr(r) THEN r
             ELSE ValidatePolicies(value, porder, aorders, i + 1)

ValidateValue(value, porder, aorders) == ValidatePolicies(value, porder, aorders, 1)

\* HexFieldFails with the test of validate_hex_string not negated
M_HexFieldFails_NotNegated(o) == IsSome(o) /\ IsSome(o[1]) /\ ValidateHexString(o[1][1])

\* one `if let Some(Some(x)) = &field { if !validate_hex_string(x) { .. } }`
HexFieldFails(o) == IsSome(o) /\ IsSome(o[1]) /\ ~ValidateHexString(o[1][1])

\* the body of the for loop of validate_json for the entry (utxo_ref, tx_out)
ValidateEntry(utxo_ref, tx_out, porder, aorders) ==
    LET v == ValidateValue(tx_out.value, porder, aorders)
        s == IF IsSome(tx_out.reference_script) /\ IsSome(tx_out.reference_script[1])
             THEN ValidateScript(tx_out.reference_script[1][1])
             ELSE Ok
    IN  IF ~KeyRegexIsMatch(utxo_ref)
        THEN Err(Words(<<"Invalid", "UTxO", "ref:">>) \o <<Val(utxo_ref)>>)
        ELSE IF Len(tx_out.address) = 0
        THEN Err(Words(<<"Empty", "address", "in", "UTxO:">>) \o <<Val(utxo_ref)>>)
        ELSE IF IsErr(v)
        THEN Err(Words(<<"Failed", "to", "validate", "value", "in", "UtxO">>)
                 \o <<Val(utxo_ref), Lit(":")>> \o v[2])
        ELSE IF IsErr(s)
        THEN Err(Words(<<"Failed", "to", "validate", "script", "in", "UTxO">>)
                 \o <<Val(utxo_ref), Lit(":")>> \o s[2])
        ELSE IF HexFieldFails(tx_out.datumhash)
        THEN Err(Words(<<"Invalid", "datumhash", "format", "in", "UTxO:">>)
                 \o <<Val(utxo_ref)>>)
        ELSE IF HexFieldFails(tx_out.inline_datumhash)
        THEN Err(Words(<<"Invalid", "inline_datumhash", "format", "in", "UTxO:">>)
                 \o <<Val(utxo_ref)>>)
        ELSE IF HexFieldFails(tx_out.datum)
        THEN Err(Words(<<"Invalid", "datum", "format", "in", "UTxO:">>)
                 \o <<Val(utxo_ref)>>)
        ELSE Ok

(* ---------------------- HashMap iteration orders ----------------------- *)

\* A std HashMap iterates in an order fixed by its RandomState, which differs
\* from one map to the next: any order of the keys is possible.
Orders(S) ==
    {s \in [1..Cardinality(S) -> S] : \A x \in S : \E i \in 1..Cardinality(S) : s[i] = x}

\* the iteration orders of the assets map of every entry of u
PolicyOrders(u) ==
    {f \in [DOMAIN u -> UNION {Orders(DOMAIN u[k].value.assets) : k \in DOMAIN u}] :
        \A k \in DOMAIN u : f[k] \in Orders(DOMAIN u[k].value.assets)}

\* the iteration orders of the asset map of every policy of the entry t
AssetOrdersOf(t) ==
    {g \in [DOMAIN t.value.assets ->
               UNION {Orders(DOMAIN t.value.assets[p]) : p \in DOMAIN t.value.assets}] :
        \A p \in DOMAIN t.value.assets : g[p] \in Orders(DOMAIN t.value.assets[p])}

AssetOrders(u) ==
    {f \in [DOMAIN u -> UNION {AssetOrdersOf(u[k]) : k \in DOMAIN u}] :
        \A k \in DOMAIN u : f[k] \in AssetOrdersOf(u[k])}

\* the iteration orders of every HashMap of the snapshot u: the top-level
\* map, each entry's assets map, each policy's asset map
IterPlans(u) ==
    [entries : Orders(DOMAIN u), policies : PolicyOrders(u), assets : AssetOrders(u)]

NoIter == [entries |-> <<>>, policies |-> <<>>, assets |-> <<>>]

(* ------------------------- generated documents ------------------------- *)

DigitChars == <<"0", "1", "2", "3", "4", "5", "6", "7", "8", "9">>

Addr == <<"a", "d", "d", "r", "1">>
GoodPid == Rep("a", PolicyIdLen - 1) \o <<"9">>
ShortPid == Rep("a", PolicyIdLen - 1)
NonHexPid == Rep("a", PolicyIdLen - 1) \o <<"z">>
UpperPid == Rep("B", PolicyIdLen - 1) \o <<"7">>
GoodAsset == <<"c", "0", "f", "e">>
BadAsset == <<"z", "z">>
LongAsset == Rep("1", MaxAssetNameLen + 1)
MaxAsset == Rep("F", MaxAssetNameLen)
HexStr == <<"a", "B", "1", "2">>
NonHexStr == <<"z", "z">>
UpperHexStr == <<"D", "E", "A", "D", "0", "F">>

\* the key of entry e: kind "ok" matches the pattern, "upper" has an
\* upper-case hash, "word" is no reference at all
Key(e, kind) ==
    CASE kind = "ok" -> Rep("a", HashLen) \o <<"#", DigitChars[e]>>
      [] kind = "upper" -> Rep("A", HashLen) \o <<"#", DigitChars[e]>>
      [] kind = "word" -> <<"b", "a", "d", "-", "k", "e", "y", DigitChars[e]>>

Qty(names) == [a \in names |-> JNum(1)]

ValueOf(lovelace, pols) ==
    JObj(IF lovelace THEN (Lovelace :> JNum(5)) @@ pols ELSE pols)

\* a reference script in the member names the structs declare
ScriptJson(lang, cbor, type) ==
    JObj([script_language |-> JStr(lang),
          script |-> JObj([cbor_hex |-> JStr(cbor), description |-> JStr("d"),
                           type |-> JStr(type)])])

\* a reference script in the camelCase member names of the documented shape
CamelScriptJson(lang, cbor, type) ==
    JObj([scriptLanguage |-> JStr(lang),
          script |-> JObj([cborHex |-> JStr(cbor), description |-> JStr("d"),
                           type |-> JStr(type)])])

PlutusLang == <<"P", "l", "u", "t", "u", "s">>

\* the minimal valid entry: {"address": "addr1", "value": {"lovelace": 5}}
BaseBody == [address |-> JStr(Addr), value |-> ValueOf(TRUE, EmptyMap)]

\* The entries a generated document is made of.  Each is a kind of key and
\* the members set on (or, for "-address", deleted from) the minimal valid
\* entry.
Variants == <<
    \* valid entries
    [key |-> "ok", set |-> <<>>],
    [key |-> "ok",
     set |-> << <<"value", ValueOf(TRUE, UpperPid :> JObj(Qty({MaxAsset, <<>>})))>>,
                <<"reference_script", ScriptJson(PlutusLang, HexStr, "plutusScriptV2")>>,
                <<"datumhash", JStr(HexStr)>>,
                <<"inline_datum", JNum(7)>>,
                <<"inline_datum_raw", JStr(NonHexStr)>> >>],
    [key |-> "ok",
     set |-> << <<"value", ValueOf(FALSE, EmptyMap)>>,
                <<"reference_script", JNull>>,
                <<"datumhash", JNull>>,
                <<"inline_datumhash", JNull>>,
                <<"datum", JNull>> >>],
    [key |-> "ok",
     set |-> << <<"value", ValueOf(TRUE, UpperPid :> JObj(Qty({MaxAsset})))>>,
                <<"reference_script", ScriptJson(PlutusLang, UpperHexStr, "simpleScript")>>,
                <<"datumhash", JStr(UpperHexStr)>>,
                <<"inline_datumhash", JStr(HexStr)>>,
                <<"datum", JStr(UpperHexStr)>> >>],
    \* entries that do not deserialize
    [key |-> "ok", set |-> << <<"-address", JNull>>, <<"datumhash", JStr(NonHexStr)>> >>],
    [key |-> "ok",
     set |-> << <<"reference_script", ScriptJson(PlutusLang, HexStr, "PlutusScriptV2")>> >>],
    \* keys
    [key |-> "upper",
     set |-> << <<"inline_datum", JStr(HexStr)>>, <<"inline_datum_raw", JStr(HexStr)>> >>],
    [key |-> "word", set |-> << <<"address", JStr(<<>>)>> >>],
    \* address
    [key |-> "ok",
     set |-> << <<"address", JStr(<<>>)>>,
                <<"value", ValueOf(TRUE, ShortPid :> JObj(Qty({GoodAsset})))>>,
                <<"inline_datum", JNum(7)>>,
                <<"inline_datum_raw", JStr(HexStr)>> >>],
    \* value
    [key |-> "ok",
     set |-> << <<"value", ValueOf(TRUE, NonHexPid :> JObj(Qty({GoodAsset})))>>,
                <<"reference_script", ScriptJson(PlutusLang, NonHexStr, "simpleScript")>> >>],
    [key |-> "ok",
     set |-> << <<"value", ValueOf(TRUE, (ShortPid :> JObj(EmptyMap))
                                          @@ (GoodPid :> JObj(EmptyMap)))>> >>],
    [key |-> "ok", set |-> << <<"value", ValueOf(TRUE, GoodPid :> JObj(EmptyMap))>> >>],
    [key |-> "ok",
     set |-> << <<"value", ValueOf(FALSE, GoodPid :> JObj(Qty({BadAsset, LongAsset})))>> >>],
    [key |-> "ok",
     set |-> << <<"value", ValueOf(TRUE, GoodPid :> JObj(Qty({LongAsset})))>> >>],
    \* reference script, in the declared and in the documented member names
    [key |-> "ok",
     set |-> << <<"reference_script", ScriptJson(<<>>, NonHexStr, "plutusScriptV3")>>,
                <<"datumhash", JStr(NonHexStr)>> >>],
    [key |-> "ok",
     set |-> << <<"reference_script", ScriptJson(<<>>, HexStr, "plutusScriptV1")>> >>],
    [key |-> "ok",
     set |-> << <<"referenceScript",
                  CamelScriptJson(PlutusLang, NonHexStr, "PlutusScriptV2")>> >>],
    [key |-> "ok",
     set |-> << <<"referenceScript", CamelScriptJson(<<>>, HexStr, "PlutusScriptV2")>> >>],
    \* hex members
    [key |-> "ok",
     set |-> << <<"datumhash", JStr(NonHexStr)>>,
                <<"inline_datumhash", JStr(NonHexStr)>>,
                <<"inline_datum", JObj(EmptyMap)>>,
                <<"inline_datum_raw", JStr(<<>>)>> >>],
    [key |-> "ok",
     set |-> << <<"inline_datumhash", JStr(NonHexStr)>>, <<"datum", JStr(NonHexStr)>> >>],
    [key |-> "ok", set |-> << <<"datumhash", JNull>>, <<"datum", JStr(NonHexStr)>> >>]
>>

\* the members set applied to body, from position i
RECURSIVE ApplySet(_, _, _)
ApplySet(body, set, i) ==
    IF i > Len(set) THEN body
    ELSE IF set[i][1] = "-address" THEN ApplySet(Without(body, "address"), set, i + 1)
    ELSE ApplySet(With(body, set[i][1], set[i][2]), set, i + 1)

EntryBody(v) == JObj(ApplySet(BaseBody, Variants[v].set, 1))

\* the document whose entry e is of variant choice[e]
BuildDoc(choice) ==
    LET keyOf == [e \in DOMAIN choice |-> Key(e, Variants[choice[e]].key)]
    IN  [k \in {keyOf[e] : e \in DOMAIN choice} |->
            EntryBody(choice[CHOOSE e \in DOMAIN choice : keyOf[e] = k])]

\* the variants of the n entries of a document; the number of an entry only
\* names its key and the maps iterate in any order, so the variants are
\* listed in non-decreasing order
Choices(n) ==
    {c \in [1..n -> 1..Len(Variants)] : \A e \in 1..(n - 1) : c[e] <= c[e + 1]}

(* ------------- settings editor: state (configure.rs 47-77) ------------- *)

DigitValue(c) == (CHOOSE i \in 1..10 : DigitChars[i] = c) - 1

\* the value of the decimal digits of s from position i on, added to acc; a
\* value past u16 stops the sum
RECURSIVE Decimal(_, _, _)
Decimal(s, i, acc) ==
    IF i > Len(s) \/ acc > U16Max THEN acc
    ELSE Decimal(s, i + 1, acc * 10 + DigitValue(s[i]))

\* str::parse::<u16>: an optional +, then at least one digit, no overflow
ParseU16(s) ==
    LET ds == IF Len(s) > 0 /\ s[1] = "+" THEN Tail(s) ELSE s
    IN  IF Len(ds) = 0 \/ \E i \in DOMAIN ds : ds[i] \notin Digits THEN <<"Err">>
        ELSE IF Decimal(ds, 1, 0) > U16Max THEN <<"Err">>
        ELSE <<"Ok", Decimal(ds, 1, 0)>>

\* one part of a dotted quad: 1 to 3 digits, no leading zero, at most 255
OctetOk(part) ==
    /\ Len(part) \in 1..3
    /\ \A i \in DOMAIN part : part[i] \in Digits
    /\ Len(part) > 1 => part[1] # "0"
    /\ Decimal(part, 1, 0) <= 255

\* str::parse::<IpAddr> on a text without a colon: four octets between
\* three dots
ParseIpAddr(s) ==
    LET dots == {i \in DOMAIN s : s[i] = "."}
    IN  IF Cardinality(dots) # 3 THEN <<"Err">>
        ELSE LET d == CHOOSE t \in [1..3 -> dots] : t[1] < t[2] /\ t[2] < t[3]
                 parts == << SubSeq(s, 1, d[1] - 1), SubSeq(s, d[1] + 1, d[2] - 1),
                             SubSeq(s, d[2] + 1, d[3] - 1), SubSeq(s, d[3] + 1, Len(s)) >>
             IN  IF \A i \in 1..4 : OctetOk(parts[i])
                 THEN <<"Ok", [i \in 1..4 |-> Decimal(parts[i], 1, 0)]>>
                 ELSE <<"Err">>

ParsedOk(r) == r[1] = "Ok"

ChainConfigTypes == {"Offline", "Direct"}

\* impl Default for ChainConfigType
DefaultChainConfigType == "Offline"

\* ChainConfig::Direct(DirectChainConfig {..}) with the transaction ID tx
DirectChainConfig(tx) ==
    [variant |-> "Direct",
     network_id |-> <<"Testnet", 42>>,
     node_socket |-> "node.socket",
     hydra_scripts_tx_id |-> tx,
     cardano_signing_key |-> "cardano.sk",
     cardano_verification_keys |-> <<>>,
     start_chain_from |-> None,
     contestation_period |-> 60,
     deposit_deadline |-> 60]

\* ChainConfig::Offline(OfflineChainConfig {..})
OfflineChainConfig ==
    [variant |-> "Offline",
     initial_utxo_file |-> "utxo.json",
     ledger_genesis_file |-> None]

\* impl Default for RunOptions
DefaultRunOptions ==
    [verbosity |-> "Verbose",
     node_id |-> "hydra-node-1",
     host |-> <<127, 0, 0, 1>>,
     port |-> 5001,
     peers |-> <<>>,
     api_host |-> <<127, 0, 0, 1>>,
     api_port |-> 4001,
     tls_cert_path |-> None,
     tls_key_path |-> None,
     monitoring_port |-> None,
     hydra_signing_key |-> "hydra.sk",
     hydra_verification_keys |-> <<>>,
     persistence_dir |-> "./",
     chain_config |-> DirectChainConfig("TxId"),
     ledger_config |->
         [cardano_ledger_protocol_parameters_file |-> "protocol-parameters.json"]]

\* #[derive(Default)] for HydraSettings: the state iced::run starts from
DefaultHydraSettings ==
    [run_options |-> DefaultRunOptions, chain_config_type |-> DefaultChainConfigType]

\* the texts typed into the inputs
NodeIdTexts == {"hydra-node-2"}
HostTexts ==
    { <<"1", "0", ".", "0", ".", "0", ".", "2">>,
      <<"2", "5", "6", ".", "0", ".", "0", ".", "1">>,
      <<"0", "1", ".", "0", ".", "0", ".", "1">>,
      <<"l", "o", "c", "a", "l", "h", "o", "s", "t">> }
PortTexts ==
    { <<"+", "8", "0", "8", "0">>, <<"6", "5", "5", "3", "6">>, <<"4", "0", "0", "1", "x">>, <<>> }
PathTexts == {"juno/file"}
NetworkIdTexts == {"0", "mainnet"}

(* ------------------------------- actions ------------------------------- *)

Init ==
    /\ \E n \in 0..MaxEntries : \E choice \in Choices(n) : doc = BuildDoc(choice)
    /\ pc = "start"
    /\ snapshot = <<>>
    /\ iter = NoIter
    /\ idx = 0
    /\ result = <<>>
    /\ call = 1
    /\ mode = "first"
    /\ first = <<>>
    /\ settings = DefaultHydraSettings
    /\ panicked = FALSE
    /\ sent = 0

\* validate_json up to the for loop: the document is deserialized, which
\* either fails or builds the HashMaps
Parse ==
    /\ pc = "start"
    /\ IF UTxOParses(doc)
       THEN /\ snapshot' = DeUTxO(doc)
            /\ iter' \in IterPlans(DeUTxO(doc))
            /\ idx' = 1
            /\ pc' = "loop"
            /\ UNCHANGED result
       ELSE /\ result' = ParseError
            /\ pc' = "done"
            /\ UNCHANGED <<snapshot, iter, idx>>
    /\ UNCHANGED <<doc, call, mode, first>>
    /\ UNCHANGED appVars

\* one iteration of the for loop of validate_json
CheckEntry ==
    /\ pc = "loop"
    /\ idx <= Len(iter.entries)
    /\ LET k == iter.entries[idx]
           r == ValidateEntry(k, snapshot[k], iter.policies[k], iter.assets[k])
       IN  IF IsErr(r)
           THEN result' = r /\ pc' = "done" /\ UNCHANGED idx
           ELSE idx' = idx + 1 /\ UNCHANGED <<result, pc>>
    /\ UNCHANGED <<doc, snapshot, iter, call, mode, first>>
    /\ UNCHANGED appVars

\* the loop is over: Ok(())
ReturnOk ==
    /\ pc = "loop"
    /\ idx > Len(iter.entries)
    /\ result' = Ok
    /\ pc' = "done"
    /\ UNCHANGED <<doc, snapshot, iter, idx, call, mode, first>>
    /\ UNCHANGED appVars

\* the caller calls validate_json a second time on the same document
CallAgain ==
    /\ pc = "done"
    /\ call = 1
    /\ first' = result
    /\ call' = 2
    /\ mode' = "again"
    /\ pc' = "start"
    /\ snapshot' = <<>>
    /\ iter' = NoIter
    /\ idx' = 0
    /\ result' = <<>>
    /\ UNCHANGED doc
    /\ UNCHANGED appVars

\* the snapshot of a successful call is serialized and the text validated
Reserialize ==
    /\ pc = "done"
    /\ call = 1
    /\ result = Ok
    /\ doc' = SerUTxO(snapshot)
    /\ first' = result
    /\ call' = 2
    /\ mode' = "roundtrip"
    /\ pc' = "start"
    /\ snapshot' = <<>>
    /\ iter' = NoIter
    /\ idx' = 0
    /\ result' = <<>>
    /\ UNCHANGED appVars

\* values for the members inline_datum and inline_datum_raw: data that
\* would fail every check if it were looked at, and null
Revisions ==
    { [inline_datum |-> JObj("address" :> JStr(<<>>)), inline_datum_raw |-> JStr(NonHexStr)],
      [inline_datum |-> JNull, inline_datum_raw |-> JNull] }

\* the entry body with the two members set to the values of r
Revised(body, r) ==
    JObj(With(With(body[2], "inline_datum", r.inline_datum),
              "inline_datum_raw", r.inline_datum_raw))

\* every entry of the document carries both members
HasInlineDatums(d) ==
    \A k \in DOMAIN d : Has(d[k][2], "inline_datum") /\ Has(d[k][2], "inline_datum_raw")

\* the caller changes the values of inline_datum and inline_datum_raw of
\* every entry of a validated document, nothing else, and validates the
\* edited document
Revise ==
    /\ pc = "done"
    /\ call = 1
    /\ UTxOParses(doc)
    /\ DOMAIN doc # {}
    /\ HasInlineDatums(doc)
    /\ \E r \in Revisions :
          /\ doc' = [k \in DOMAIN doc |-> Revised(doc[k], r)]
          /\ \A k \in DOMAIN doc : doc'[k] # doc[k]
    /\ first' = result
    /\ call' = 2
    /\ mode' = "revised"
    /\ pc' = "start"
    /\ snapshot' = <<>>
    /\ iter' = NoIter
    /\ idx' = 0
    /\ result' = <<>>
    /\ UNCHANGED appVars

Next == Parse \/ CheckEntry \/ ReturnOk \/ CallAgain \/ Reserialize \/ Revise

Spec == Init /\ [][Next]_vars

(* ---------- settings editor: HydraSettings::update (354-467) ----------- *)

\* main: iced::run starts the editor from HydraSettings::default(); no
\* document is being validated
InitSettings ==
    /\ settings = DefaultHydraSettings
    /\ panicked = FALSE
    /\ sent = 0
    /\ doc = <<>>
    /\ pc = "start"
    /\ snapshot = <<>>
    /\ iter = NoIter
    /\ idx = 0
    /\ result = <<>>
    /\ call = 1
    /\ mode = "first"
    /\ first = <<>>

\* update can be called: it has not panicked
Running == ~panicked /\ sent < MaxMessages

\* update returns with the settings s
Deliver(s) ==
    /\ settings' = s
    /\ sent' = sent + 1
    /\ UNCHANGED <<panicked, valVars>>

\* update panics
Panic ==
    /\ panicked' = TRUE
    /\ sent' = sent + 1
    /\ UNCHANGED <<settings, valVars>>

\* the settings with the field f of run_options set to v
WithOption(f, v) == [settings EXCEPT !.run_options[f] = v]

VerbosityToggled ==
    /\ Running
    /\ \E quiet \in BOOLEAN :
          Deliver(WithOption("verbosity", IF quiet THEN "Quiet" ELSE "Verbose"))

NodeIdChanged ==
    /\ Running
    /\ \E id \in NodeIdTexts : Deliver(WithOption("node_id", id))

HostChanged ==
    /\ Running
    /\ \E host \in HostTexts :
          IF ParsedOk(ParseIpAddr(host))
          THEN Deliver(WithOption("host", ParseIpAddr(host)[2]))
          ELSE Deliver(settings)

PortChanged ==
    /\ Running
    /\ \E port \in PortTexts :
          IF ParsedOk(ParseU16(port))
          THEN Deliver(WithOption("port", ParseU16(port)[2]))
          ELSE Deliver(settings)

ApiHostChanged ==
    /\ Running
    /\ \E host \in HostTexts :
          IF ParsedOk(ParseIpAddr(host))
          THEN Deliver(WithOption("api_host", ParseIpAddr(host)[2]))
          ELSE Deliver(settings)

ApiPortChanged ==
    /\ Running
    /\ \E port \in PortTexts :
          IF ParsedOk(ParseU16(port))
          THEN Deliver(WithOption("api_port", ParseU16(port)[2]))
          ELSE Deliver(settings)

\* port.parse().ok()
MonitoringPortChanged ==
    /\ Running
    /\ \E port \in PortTexts :
          Deliver(WithOption("monitoring_port",
                             IF ParsedOk(ParseU16(port)) THEN Some(ParseU16(port)[2])
                             ELSE None))

TlsCertPathChanged ==
    /\ Running
    /\ \E path \in PathTexts : Deliver(WithOption("tls_cert_path", Some(path)))

TlsKeyPathChanged ==
    /\ Running
    /\ \E path \in PathTexts : Deliver(WithOption("tls_key_path", Some(path)))

HydraSigningKeyChanged ==
    /\ Running
    /\ \E path \in PathTexts : Deliver(WithOption("hydra_signing_key", path))

\* push(PathBuf::new())
AddHydraVerificationKey ==
    /\ Running
    /\ Deliver(WithOption("hydra_verification_keys",
                          Append(settings.run_options.hydra_verification_keys, "")))

\* the sequence keys without its element of index i, counted from 0
RemoveAt(keys, i) == SubSeq(keys, 1, i) \o SubSeq(keys, i + 2, Len(keys))

\* Vec::remove panics on an index past the end
RemoveHydraVerificationKey ==
    /\ Running
    /\ \E i \in 0..MaxMessages :
          IF i < Len(settings.run_options.hydra_verification_keys)
          THEN Deliver(WithOption("hydra_verification_keys",
                                  RemoveAt(settings.run_options.hydra_verification_keys, i)))
          ELSE Panic

HydraVerificationKeyChanged ==
    /\ Running
    /\ \E i \in 0..MaxMessages : \E path \in PathTexts :
          IF i < Len(settings.run_options.hydra_verification_keys)
          THEN Deliver([settings EXCEPT !.run_options.hydra_verification_keys[i + 1] = path])
          ELSE Deliver(settings)

ChainConfigTypeChanged ==
    /\ Running
    /\ \E config_type \in ChainConfigTypes :
          Deliver([settings EXCEPT
                      !.chain_config_type = config_type,
                      !.run_options.chain_config =
                          IF config_type = "Direct" THEN DirectChainConfig("")
                          ELSE OfflineChainConfig])

\* the text is ignored
NetworkIdChanged ==
    /\ Running
    /\ \E text \in NetworkIdTexts :
          IF settings.run_options.chain_config.variant = "Direct"
          THEN Deliver([settings EXCEPT !.run_options.chain_config.network_id = <<"Mainnet">>])
          ELSE Deliver(settings)

NodeSocketChanged ==
    /\ Running
    /\ \E socket \in PathTexts :
          IF settings.run_options.chain_config.variant = "Direct"
          THEN Deliver([settings EXCEPT !.run_options.chain_config.node_socket = socket])
          ELSE Deliver(settings)

PersistenceDirChanged ==
    /\ Running
    /\ \E dir \in PathTexts : Deliver(WithOption("persistence_dir", dir))

BrowseTlsCert ==
    /\ Running
    /\ Deliver(settings)

BrowseTlsKey ==
    /\ Running
    /\ Deliver(settings)

BrowseHydraSigningKey ==
    /\ Running
    /\ Deliver(settings)

BrowseHydraVerificationKey ==
    /\ Running
    /\ \E i \in 0..MaxMessages : Deliver(settings)

BrowsePersistenceDir ==
    /\ Running
    /\ Deliver(settings)

\* println! of run_options
SaveSettings ==
    /\ Running
    /\ Deliver(settings)

\* todo!()
InitialUtxoChanged ==
    /\ Running
    /\ \E text \in PathTexts : Panic

\* todo!()
BrowseInitialUtxo ==
    /\ Running
    /\ Panic

NextSettings ==
    \/ VerbosityToggled \/ NodeIdChanged \/ HostChanged \/ PortChanged
    \/ ApiHostChanged \/ ApiPortChanged \/ MonitoringPortChanged
    \/ TlsCertPathChanged \/ TlsKeyPathChanged \/ BrowseTlsCert \/ BrowseTlsKey
    \/ HydraSigningKeyChanged \/ AddHydraVerificationKey
    \/ RemoveHydraVerificationKey \/ HydraVerificationKeyChanged
    \/ BrowseHydraSigningKey \/ BrowseHydraVerificationKey
    \/ ChainConfigTypeChanged \/ NetworkIdChanged \/ NodeSocketChanged
    \/ InitialUtxoChanged \/ BrowseInitialUtxo
    \/ PersistenceDirChanged \/ BrowsePersistenceDir \/ SaveSettings

SpecSettings == InitSettings /\ [][NextSettings]_vars

TypeOK ==
    /\ pc \in {"start", "loop", "done"}
    /\ call \in {1, 2}
    /\ mode \in {"first", "again", "roundtrip", "revised"}
    /\ pc = "done" <=> Len(result) > 0

(* ------------------- the data-model invariants 1-7 --------------------- *)

HexChars == Digits \cup LowerHexLetters \cup UpperHexLetters

AllHex(s) == {s[i] : i \in DOMAIN s} \subseteq HexChars

\* invariant 1: <64 lower-case hex characters>#<non-negative integer>
MatchesRefPattern(k) ==
    /\ Len(k) > HashLen + 1
    /\ {k[i] : i \in 1..HashLen} \subseteq Digits \cup LowerHexLetters
    /\ k[HashLen + 1] = "#"
    /\ {k[i] : i \in (HashLen + 2)..Len(k)} \subseteq Digits

\* invariant 2
AddressOk(t) == t.address # <<>>

\* invariant 3, for one policy ID
PolicyIdOk(p) == Len(p) = PolicyIdLen /\ AllHex(p)

\* invariant 5, for one asset name
AssetNameOk(a) == Len(a) <= MaxAssetNameLen /\ AllHex(a)

\* invariants 3, 4 and 5 for the policy p of the entry t
PolicyOk(t, p) ==
    /\ PolicyIdOk(p)
    /\ DOMAIN t.value.assets[p] # {}
    /\ \A a \in DOMAIN t.value.assets[p] : AssetNameOk(a)

ValueOk(t) == \A p \in DOMAIN t.value.assets : PolicyOk(t, p)

ScriptPresent(t) == t.reference_script # None /\ t.reference_script[1] # None

\* invariants 6 (cbor_hex) and 7
ScriptOk(t) ==
    ScriptPresent(t) =>
        /\ AllHex(t.reference_script[1][1].script.cbor_hex)
        /\ t.reference_script[1][1].script_language # <<>>

\* the hex members, in the order validate_json looks at them
HexFields == <<"datumhash", "inline_datumhash", "datum">>

\* invariant 6 for the member f
HexFieldOk(t, f) == (t[f] # None /\ t[f][1] # None) => AllHex(t[f][1][1])

\* invariants 1-7 for the entry k of the snapshot
EntryOk(k) ==
    /\ MatchesRefPattern(k)
    /\ AddressOk(snapshot[k])
    /\ ValueOk(snapshot[k])
    /\ ScriptOk(snapshot[k])
    /\ \A i \in 1..Len(HexFields) : HexFieldOk(snapshot[k], HexFields[i])

\* the call is over and its document deserialized
Validated == pc = "done" /\ UTxOParses(doc)

\* the position of the entry k in the iteration of the current call
PosOf(k) == CHOOSE i \in 1..Len(iter.entries) : iter.entries[i] = k

\* no entry iterated before k violates an invariant
NoEarlierEntryFails(k) == \A j \in 1..(PosOf(k) - 1) : EntryOk(iter.entries[j])

\* the message of the error r contains the interpolated string s
Mentions(r, s) ==
    IsErr(r) /\ \E i \in 1..Len(r[2]) : r[2][i][1] = "val" /\ r[2][i][2] = s

\* the message of the error r contains the word w
HasWord(r, w) ==
    IsErr(r) /\ \E i \in 1..Len(r[2]) : r[2][i][1] = "lit" /\ r[2][i][2] = w

\* the message of the error r starts with the words ws
StartsWith(r, ws) ==
    /\ IsErr(r)
    /\ Len(r[2]) >= Len(ws)
    /\ \A i \in 1..Len(ws) : r[2][i][1] = "lit" /\ r[2][i][2] = ws[i]

\* r1 and r2 are the same outcome: both Ok, or errors of the same message
SameResult(r1, r2) ==
    /\ r1[1] = r2[1]
    /\ IsErr(r1) =>
          /\ Len(r1[2]) = Len(r2[2])
          /\ \A i \in 1..Len(r1[2]) :
                r1[2][i][1] = r2[2][i][1] /\ r1[2][i][2] = r2[2][i][2]

IsInvalidRef(r) == StartsWith(r, <<"Invalid", "UTxO", "ref:">>)

(* ------------------------------- claims -------------------------------- *)

\* C1: a document that deserializes and whose every entry satisfies
\* invariants 1-7 makes validate_json return Ok, whatever the number of
\* entries and the iteration order of the maps.
C1_ValidAccepted ==
    (Validated /\ \A k \in DOMAIN snapshot : EntryOk(k)) => result = Ok

\* C1 witness: a call returned Ok on a document of two entries, one of them
\* with a native asset of a 64-character name and a reference script.
C1_Witness ==
    /\ Validated /\ mode = "first" /\ result = Ok
    /\ Cardinality(DOMAIN snapshot) >= 2
    /\ \E k \in DOMAIN snapshot :
          /\ ScriptPresent(snapshot[k])
          /\ \E p \in DOMAIN snapshot[k].value.assets :
                \E a \in DOMAIN snapshot[k].value.assets[p] : Len(a) = MaxAssetNameLen

\* C2 as stated: every key that does not match the pattern makes
\* validate_json fail with "Invalid UTxO ref" naming that key, whatever the
\* other entries contain.
C2_Original ==
    Validated =>
        \A k \in DOMAIN doc :
            ~MatchesRefPattern(k) => (IsInvalidRef(result) /\ Mentions(result, k))

\* C2 amended: a key that does not match the pattern makes validate_json
\* fail; the error is "Invalid UTxO ref" naming that key when no entry
\* iterated before it violates an invariant.
C2_BadKeyRejected ==
    Validated =>
        \A k \in DOMAIN doc :
            ~MatchesRefPattern(k) =>
                /\ IsErr(result)
                /\ NoEarlierEntryFails(k) => (IsInvalidRef(result) /\ Mentions(result, k))

\* C2 witness: the entry with the bad key was iterated second, after a valid
\* entry, and the error names it.
C2_Witness ==
    /\ Validated
    /\ \E k \in DOMAIN doc :
          /\ ~MatchesRefPattern(k)
          /\ PosOf(k) = 2
          /\ EntryOk(iter.entries[1])
          /\ IsInvalidRef(result) /\ Mentions(result, k)

\* C3: a second call of validate_json on the same document returns what the
\* first call returned.
C3_Deterministic == (mode = "again" /\ pc = "done") => SameResult(result, first)

IsScriptError(r) == StartsWith(r, <<"Failed", "to", "validate", "script">>)

\* the entry body b carries a reference script in the documented shape whose
\* cborHex is not hex or whose scriptLanguage is empty
CamelScriptBad(b) ==
    /\ Has(b, "referenceScript")
    /\ ~IsNull(b["referenceScript"])
    /\ \/ ~AllHex(b["referenceScript"][2]["script"][2]["cborHex"][2])
       \/ b["referenceScript"][2]["scriptLanguage"][2] = <<>>

\* the entry body b has no reference script under either spelling
NoScriptMember(b) ==
    /\ Has(b, "referenceScript") => IsNull(b["referenceScript"])
    /\ Has(b, "reference_script") => IsNull(b["reference_script"])

\* C4: a reference script in the documented JSON shape (referenceScript,
\* scriptLanguage, script.cborHex) with a non-hex cborHex or an empty
\* scriptLanguage makes validation fail with the invalid-script error (here:
\* in a document with no other violation); an absent or null reference
\* script is never validated.
C4_CamelScriptValidated ==
    Validated =>
        \A k \in DOMAIN doc :
            /\ (CamelScriptBad(doc[k][2]) /\ \A k2 \in DOMAIN snapshot : EntryOk(k2))
                  => (IsScriptError(result) /\ Mentions(result, k))
            /\ NoScriptMember(doc[k][2])
                  => ~(IsScriptError(result) /\ Mentions(result, k))

\* the error validate_json returns for the hex member f of the entry k
HexFieldError(f, k) ==
    Err(Words(<<"Invalid", f, "format", "in", "UTxO:">>) \o <<Val(k)>>)

AbsentOrNull(b, f) == Has(b, f) => IsNull(b[f])

NonHexString(b, f) == Has(b, f) /\ IsStr(b[f]) /\ ~AllHex(b[f][2])

\* C5 as stated: for datumhash, inline_datumhash and datum, an absent member
\* and a null member are both read as "nothing to check" and never produce
\* the error of that member, and a non-hex string makes validate_json fail
\* with the invalid-hex error of that member.
C5_Original ==
    Validated =>
        \A k \in DOMAIN doc : \A i \in 1..Len(HexFields) :
            /\ AbsentOrNull(doc[k][2], HexFields[i]) =>
                  /\ snapshot[k][HexFields[i]] = None
                  /\ ~SameResult(result, HexFieldError(HexFields[i], k))
            /\ NonHexString(doc[k][2], HexFields[i]) =>
                  SameResult(result, HexFieldError(HexFields[i], k))

\* no check that validate_json runs before the hex member HexFields[i] of
\* the entry k fails
NothingFailsBefore(k, i) ==
    /\ NoEarlierEntryFails(k)
    /\ MatchesRefPattern(k)
    /\ AddressOk(snapshot[k])
    /\ ValueOk(snapshot[k])
    /\ ScriptOk(snapshot[k])
    /\ \A j \in 1..(i - 1) : HexFieldOk(snapshot[k], HexFields[j])

\* C5 amended: absent and null are both read as "nothing to check" and never
\* produce the error of that member; a non-hex string makes validate_json
\* fail, with the invalid-hex error of that member when no earlier check of
\* the entry and no entry iterated before it fails.
C5_HexFields ==
    Validated =>
        \A k \in DOMAIN doc : \A i \in 1..Len(HexFields) :
            /\ AbsentOrNull(doc[k][2], HexFields[i]) =>
                  /\ snapshot[k][HexFields[i]] = None
                  /\ ~SameResult(result, HexFieldError(HexFields[i], k))
            /\ NonHexString(doc[k][2], HexFields[i]) =>
                  /\ IsErr(result)
                  /\ NothingFailsBefore(k, i) =>
                        SameResult(result, HexFieldError(HexFields[i], k))

\* C5 witness: a call failed with the error of datum, in an entry whose
\* datumhash is null and whose inline_datumhash is absent.
C5_Witness ==
    /\ Validated
    /\ \E k \in DOMAIN doc :
          /\ Has(doc[k][2], "datumhash") /\ IsNull(doc[k][2]["datumhash"])
          /\ ~Has(doc[k][2], "inline_datumhash")
          /\ NonHexString(doc[k][2], "datum")
          /\ SameResult(result, HexFieldError("datum", k))

(* ------------------- the documented order of the checks ---------------- *)

Min(S) == CHOOSE x \in S : \A y \in S : x <= y

InvalidRefError(k) == Err(Words(<<"Invalid", "UTxO", "ref:">>) \o <<Val(k)>>)
EmptyAddressError(k) == Err(Words(<<"Empty", "address", "in", "UTxO:">>) \o <<Val(k)>>)
ValueError(k, inner) ==
    Err(Words(<<"Failed", "to", "validate", "value", "in", "UtxO">>)
        \o <<Val(k), Lit(":")>> \o inner)
ScriptError(k, inner) ==
    Err(Words(<<"Failed", "to", "validate", "script", "in", "UTxO">>)
        \o <<Val(k), Lit(":")>> \o inner)
PolicyIdMsg(p) == Words(<<"Invalid", "Policy", "ID:">>) \o <<Val(p)>>
EmptyMapMsg(p) ==
    Words(<<"Asset", "map", "for", "policy">>) \o <<Val(p)>> \o Words(<<"cannot", "be", "empty">>)
AssetNameMsg(a) == Words(<<"Invalid", "asset", "name:">>) \o <<Val(a)>>

\* the first policy of the entry k, in its iteration order, that violates
\* invariant 3, 4 or 5
FirstBadPolicy(k) ==
    iter.policies[k][Min({i \in 1..Len(iter.policies[k]) :
                             ~PolicyOk(snapshot[k], iter.policies[k][i])})]

\* the first asset name of the policy p of the entry k, in its iteration
\* order, that violates invariant 5
FirstBadName(k, p) ==
    iter.assets[k][p][Min({j \in 1..Len(iter.assets[k][p]) :
                              ~AssetNameOk(iter.assets[k][p][j])})]

\* the checks of one entry, in the documented order
CheckOrder ==
    <<"key", "address", "value", "cbor_hex", "script_language",
      "datumhash", "inline_datumhash", "datum">>

CheckFails(k, c) ==
    CASE c = "key" -> ~MatchesRefPattern(k)
      [] c = "address" -> ~AddressOk(snapshot[k])
      [] c = "value" -> ~ValueOk(snapshot[k])
      [] c = "cbor_hex" ->
            /\ ScriptPresent(snapshot[k])
            /\ ~AllHex(snapshot[k].reference_script[1][1].script.cbor_hex)
      [] c = "script_language" ->
            /\ ScriptPresent(snapshot[k])
            /\ snapshot[k].reference_script[1][1].script_language = <<>>
      [] OTHER -> ~HexFieldOk(snapshot[k], c)

\* within a policy: the policy-ID format, then the non-emptiness of the asset
\* map, then the asset names
PolicyMsg(k, p) ==
    IF ~PolicyIdOk(p) THEN PolicyIdMsg(p)
    ELSE IF DOMAIN snapshot[k].value.assets[p] = {} THEN EmptyMapMsg(p)
    ELSE AssetNameMsg(FirstBadName(k, p))

CheckError(k, c) ==
    CASE c = "key" -> InvalidRefError(k)
      [] c = "address" -> EmptyAddressError(k)
      [] c = "value" -> ValueError(k, PolicyMsg(k, FirstBadPolicy(k)))
      [] c = "cbor_hex" -> ScriptError(k, Words(<<"Invalid", "hex", "in", "script">>))
      [] c = "script_language" ->
            ScriptError(k, Words(<<"Script", "language", "cannot", "be", "empty">>))
      [] OTHER -> HexFieldError(c, k)

FirstFailingCheck(k) ==
    CheckOrder[Min({i \in 1..Len(CheckOrder) : CheckFails(k, CheckOrder[i])})]

FirstFailingEntry ==
    iter.entries[Min({i \in 1..Len(iter.entries) : ~EntryOk(iter.entries[i])})]

\* the outcome the documented order gives for the current call
ExpectedResult ==
    IF ~UTxOParses(doc) THEN ParseError
    ELSE IF \A k \in DOMAIN snapshot : EntryOk(k) THEN Ok
    ELSE CheckError(FirstFailingEntry, FirstFailingCheck(FirstFailingEntry))

\* C6: validation is fail-fast and ordered: a document that does not
\* deserialize gives the parse error whatever else is wrong in it; otherwise
\* the one error returned is that of the first failing check, in the order
\* key, address, value (per policy: ID, non-emptiness, names), script (CBOR
\* hex, then language), datumhash, inline_datumhash, datum, of the first
\* failing entry iterated; Ok when nothing fails.
C6_FailFastOrdered == pc = "done" => SameResult(result, ExpectedResult)

\* C6 witness: the call stopped on the CBOR hex of a script whose language
\* is empty too, in an entry whose datumhash is not hex either, with another
\* failing entry after it.
C6_Witness ==
    /\ Validated
    /\ Len(iter.entries) >= 2
    /\ idx = 1
    /\ ~EntryOk(iter.entries[2])
    /\ CheckFails(iter.entries[1], "cbor_hex")
    /\ CheckFails(iter.entries[1], "script_language")
    /\ CheckFails(iter.entries[1], "datumhash")
    /\ SameResult(result, CheckError(iter.entries[1], "cbor_hex"))

\* C6 witness of the parse error: a document whose entry lacks the address
\* and has a non-hex datumhash.
C6_ParseWitness ==
    /\ pc = "done"
    /\ ~UTxOParses(doc)
    /\ \E k \in DOMAIN doc : NonHexString(doc[k][2], "datumhash")
    /\ SameResult(result, ParseError)

\* C7: every failure after a successful parse names the key of the entry it
\* stopped on; a failure of the value names the offending policy ID
\* (invalid ID, empty asset map) or the offending asset name; a failure of
\* the script, datumhash, inline_datumhash or datum names that member.
C7_MessagesLocate ==
    (Validated /\ IsErr(result)) =>
        LET k == iter.entries[idx]
            c == FirstFailingCheck(k)
            t == snapshot[k]
        IN  /\ ~EntryOk(k)
            /\ Mentions(result, k)
            /\ c = "value" =>
                  \/ \E p \in DOMAIN t.value.assets :
                        /\ ~PolicyIdOk(p) \/ DOMAIN t.value.assets[p] = {}
                        /\ Mentions(result, p)
                        /\ HasWord(result, "Policy") \/ HasWord(result, "policy")
                  \/ \E p \in DOMAIN t.value.assets : \E a \in DOMAIN t.value.assets[p] :
                        /\ ~AssetNameOk(a)
                        /\ Mentions(result, a)
                        /\ HasWord(result, "asset")
            /\ c \in {"cbor_hex", "script_language"} => HasWord(result, "script")
            /\ c \in {"datumhash", "inline_datumhash", "datum"} => HasWord(result, c)

\* C7 witness: a failure on an asset name, naming the entry and the name.
C7_Witness ==
    /\ Validated
    /\ IsErr(result)
    /\ \E p \in DOMAIN snapshot[iter.entries[idx]].value.assets :
          \E a \in DOMAIN snapshot[iter.entries[idx]].value.assets[p] :
              /\ ~AssetNameOk(a)
              /\ Mentions(result, a)
              /\ Mentions(result, iter.entries[idx])

\* C8: the snapshot of a document validate_json accepted, serialized back to
\* JSON, is accepted again.
C8_RoundTrip == (mode = "roundtrip" /\ pc = "done") => result = Ok

\* C8 witness: the re-serialized document was accepted; it is not the
\* original one (a null member was dropped, or a missing lovelace written),
\* or it carries a reference script.
C8_Witness ==
    /\ mode = "roundtrip" /\ pc = "done" /\ result = Ok
    /\ \E k \in DOMAIN snapshot : ScriptPresent(snapshot[k])
    /\ \E k \in DOMAIN snapshot :
          /\ Has(doc[k][2]["value"][2], Lovelace)
          /\ snapshot[k].value.lovelace = 0
          /\ ~Has(doc[k][2], "datumhash")

\* C9 as stated: a policy ID that is not 56 hex characters, in an entry with
\* a valid key and address, makes validate_json fail with the invalid-policy
\* error naming it.
C9_Original ==
    Validated =>
        \A k \in DOMAIN snapshot : \A p \in DOMAIN snapshot[k].value.assets :
            (~PolicyIdOk(p) /\ MatchesRefPattern(k) /\ AddressOk(snapshot[k]))
                => SameResult(result, ValueError(k, PolicyIdMsg(p)))

\* no policy of the entry k iterated before p violates invariant 3, 4 or 5
NoEarlierPolicyFails(k, p) ==
    \A i \in 1..Len(iter.policies[k]) :
        (\E j \in (i + 1)..Len(iter.policies[k]) : iter.policies[k][j] = p)
            => PolicyOk(snapshot[k], iter.policies[k][i])

\* C9 amended: such a policy ID makes validate_json fail; the error is the
\* invalid-policy error naming it when no entry iterated before its entry,
\* and no policy of its entry iterated before it, violates an invariant.
C9_BadPolicyRejected ==
    Validated =>
        \A k \in DOMAIN snapshot : \A p \in DOMAIN snapshot[k].value.assets :
            (~PolicyIdOk(p) /\ MatchesRefPattern(k) /\ AddressOk(snapshot[k])) =>
                /\ IsErr(result)
                /\ (NoEarlierEntryFails(k) /\ NoEarlierPolicyFails(k, p))
                      => SameResult(result, ValueError(k, PolicyIdMsg(p)))

\* C9 witness: the invalid-policy error for a 56-character policy ID with a
\* non-hex character, in an entry iterated second.
C9_Witness ==
    /\ Validated
    /\ \E k \in DOMAIN snapshot : \E p \in DOMAIN snapshot[k].value.assets :
          /\ Len(p) = PolicyIdLen /\ ~AllHex(p)
          /\ PosOf(k) = 2
          /\ SameResult(result, ValueError(k, PolicyIdMsg(p)))

\* the policy p of the entry k has a well-formed ID and no asset, and it is
\* the only violation of the document
OnlyEmptyMap(k, p) ==
    /\ PolicyIdOk(p)
    /\ DOMAIN snapshot[k].value.assets[p] = {}
    /\ \A k2 \in DOMAIN snapshot :
          /\ MatchesRefPattern(k2)
          /\ AddressOk(snapshot[k2])
          /\ ScriptOk(snapshot[k2])
          /\ \A i \in 1..Len(HexFields) : HexFieldOk(snapshot[k2], HexFields[i])
          /\ \A p2 \in DOMAIN snapshot[k2].value.assets :
                (k2 # k \/ p2 # p) => PolicyOk(snapshot[k2], p2)

\* C10: a document whose only violation is a well-formed policy ID with an
\* empty asset map fails with the empty-asset-map error naming that policy.
C10_EmptyAssetMap ==
    Validated =>
        \A k \in DOMAIN snapshot : \A p \in DOMAIN snapshot[k].value.assets :
            OnlyEmptyMap(k, p) => SameResult(result, ValueError(k, EmptyMapMsg(p)))

\* C10 witness: the empty-asset-map error in a document of two entries, the
\* other one valid and holding a native asset.
C10_Witness ==
    /\ Validated
    /\ \E k \in DOMAIN snapshot : \E p \in DOMAIN snapshot[k].value.assets :
          /\ OnlyEmptyMap(k, p)
          /\ SameResult(result, ValueError(k, EmptyMapMsg(p)))
          /\ \E k2 \in DOMAIN snapshot \ {k} : DOMAIN snapshot[k2].value.assets # {}

\* the result is the invalid-asset-name error of the entry k for a name of
\* its policy p that violates invariant 5
IsAssetNameErrorIn(k, p) ==
    \E b \in DOMAIN snapshot[k].value.assets[p] :
        ~AssetNameOk(b) /\ SameResult(result, ValueError(k, AssetNameMsg(b)))

\* C11 as stated: an all-hex name of at most 64 characters passes, and a name
\* of 65 characters or more, or with a non-hex character, makes
\* validate_json fail with the invalid-asset-name error.
C11_Original ==
    Validated =>
        \A k \in DOMAIN snapshot : \A p \in DOMAIN snapshot[k].value.assets :
            \A a \in DOMAIN snapshot[k].value.assets[p] :
                /\ (Len(a) <= MaxAssetNameLen /\ AllHex(a))
                      => ~SameResult(result, ValueError(k, AssetNameMsg(a)))
                /\ (Len(a) > MaxAssetNameLen \/ ~AllHex(a))
                      => IsAssetNameErrorIn(k, p)

\* C11 amended: an all-hex name of at most 64 characters never produces the
\* invalid-asset-name error; a name of 65 characters or more, or with a
\* non-hex character, makes validate_json fail, with the invalid-asset-name
\* error when its policy ID is well-formed, the key and address of its entry
\* are valid, and no entry and no policy iterated before it fails.
C11_AssetNameBoundary ==
    Validated =>
        \A k \in DOMAIN snapshot : \A p \in DOMAIN snapshot[k].value.assets :
            \A a \in DOMAIN snapshot[k].value.assets[p] :
                /\ (Len(a) <= MaxAssetNameLen /\ AllHex(a))
                      => ~SameResult(result, ValueError(k, AssetNameMsg(a)))
                /\ (Len(a) > MaxAssetNameLen \/ ~AllHex(a)) =>
                      /\ IsErr(result)
                      /\ ( /\ PolicyIdOk(p)
                           /\ MatchesRefPattern(k)
                           /\ AddressOk(snapshot[k])
                           /\ NoEarlierEntryFails(k)
                           /\ NoEarlierPolicyFails(k, p) )
                            => IsAssetNameErrorIn(k, p)

\* C11 witness: the call accepted an entry with a 64-character name, then
\* failed on a 65-character all-hex name of the entry iterated second.
C11_Witness ==
    /\ Validated
    /\ Len(iter.entries) >= 2
    /\ idx = 2
    /\ \E p \in DOMAIN snapshot[iter.entries[1]].value.assets :
          \E a \in DOMAIN snapshot[iter.entries[1]].value.assets[p] :
              Len(a) = MaxAssetNameLen
    /\ \E p \in DOMAIN snapshot[iter.entries[2]].value.assets :
          \E a \in DOMAIN snapshot[iter.entries[2]].value.assets[p] :
              /\ Len(a) = MaxAssetNameLen + 1
              /\ AllHex(a)
              /\ SameResult(result, ValueError(iter.entries[2], AssetNameMsg(a)))

HasUpper(s) == \E i \in DOMAIN s : s[i] \in UpperHexLetters

\* the key k has a 64-character hex hash with an upper-case letter in it,
\* then # and an index
UpperHashKey(k) ==
    /\ Len(k) > HashLen + 1
    /\ AllHex(SubSeq(k, 1, HashLen))
    /\ HasUpper(SubSeq(k, 1, HashLen))
    /\ k[HashLen + 1] = "#"
    /\ {k[i] : i \in (HashLen + 2)..Len(k)} \subseteq Digits

ScriptHexError(k) == ScriptError(k, Words(<<"Invalid", "hex", "in", "script">>))

\* the payload strings of the entry k are hex with an upper-case letter in
\* each: a policy ID, an asset name, cbor_hex, datumhash and datum
UpperPayload(k) ==
    /\ \E p \in DOMAIN snapshot[k].value.assets :
          /\ HasUpper(p)
          /\ \E a \in DOMAIN snapshot[k].value.assets[p] : HasUpper(a)
    /\ ScriptPresent(snapshot[k])
    /\ HasUpper(snapshot[k].reference_script[1][1].script.cbor_hex)
    /\ snapshot[k].datumhash # None /\ HasUpper(snapshot[k].datumhash[1][1])
    /\ snapshot[k].inline_datumhash # None /\ HasUpper(snapshot[k].inline_datumhash[1][1])
    /\ snapshot[k].datum # None /\ HasUpper(snapshot[k].datum[1][1])

\* C12: hex case is asymmetric.  A key whose hash has an upper-case hex
\* letter makes validation fail, as an invalid reference naming the key when
\* the loop reaches its entry; a policy ID, asset name, cbor_hex, datumhash,
\* inline_datumhash or datum made of 0-9, a-f and A-F never produces the
\* error of that string, and an entry valid but for the case of its payload
\* is accepted.
C12_CaseAsymmetry ==
    Validated =>
        /\ \A k \in DOMAIN snapshot :
              UpperHashKey(k) =>
                  /\ IsErr(result)
                  /\ (idx \in DOMAIN iter.entries /\ iter.entries[idx] = k)
                        => SameResult(result, InvalidRefError(k))
        /\ \A k \in DOMAIN snapshot :
              /\ \A p \in DOMAIN snapshot[k].value.assets :
                    /\ (Len(p) = PolicyIdLen /\ AllHex(p))
                          => ~SameResult(result, ValueError(k, PolicyIdMsg(p)))
                    /\ \A a \in DOMAIN snapshot[k].value.assets[p] :
                          (Len(a) <= MaxAssetNameLen /\ AllHex(a))
                              => ~SameResult(result, ValueError(k, AssetNameMsg(a)))
              /\ (ScriptPresent(snapshot[k])
                    /\ AllHex(snapshot[k].reference_script[1][1].script.cbor_hex))
                    => ~SameResult(result, ScriptHexError(k))
              /\ \A i \in 1..Len(HexFields) :
                    HexFieldOk(snapshot[k], HexFields[i])
                        => ~SameResult(result, HexFieldError(HexFields[i], k))
        /\ (\A k \in DOMAIN snapshot : EntryOk(k)) => result = Ok

\* C12 witness: the loop passed an entry with upper-case hex in its policy
\* ID, asset name, cbor_hex, datumhash, inline_datumhash and datum, then
\* stopped on an entry with an upper-case hash, as an invalid reference.
C12_Witness ==
    /\ Validated
    /\ Len(iter.entries) >= 2
    /\ idx = 2
    /\ UpperPayload(iter.entries[1])
    /\ UpperHashKey(iter.entries[2])
    /\ SameResult(result, InvalidRefError(iter.entries[2]))

\* C13: inline_datum and inline_datum_raw never influence the result: a
\* document and its edit that differs only in the values of those two
\* members, both deserializing, get the same outcome.
C13_InlineDatumsIgnored ==
    (mode = "revised" /\ pc = "done") => SameResult(result, first)

\* C14: in every state of the settings editor reachable from the Default
\* HydraSettings by any sequence of Messages, chain_config_type is Offline
\* exactly when run_options.chain_config is ChainConfig::Offline and Direct
\* exactly when it is ChainConfig::Direct.
C14_ChainConfigTypeAgrees ==
    /\ settings.chain_config_type = "Offline"
          <=> settings.run_options.chain_config.variant = "Offline"
    /\ settings.chain_config_type = "Direct"
          <=> settings.run_options.chain_config.variant = "Direct"

====
